---- MODULE Spec2Model ----
(***************************************************************************)
(* Model of the mdbook preprocessor "generate-summary" (src/src/lib.rs).   *)
(*                                                                         *)
(* The preprocessor walks the book's source directory and builds the       *)
(* numbered chapter tree (a Vec<SummaryItem> of Links).  The state is the  *)
(* filesystem below the book source directory, the configuration, and the  *)
(* result of the last two runs of the preprocessor.                        *)
(*                                                                         *)
(* A string of the program (a chapter name, a file's content, the stem of  *)
(* a file name) is a sequence of one-character strings, so that file_stem, *)
(* extension, strip_prefix, read_line and the byte-wise order of OsString  *)
(* are computed and not assumed.  A file name is written as a TLA+ string  *)
(* and Chars gives its characters.  A path is the sequence of file names   *)
(* below the book source directory, which is itself the empty path.        *)
(***************************************************************************)
EXTENDS Naturals, Sequences, FiniteSets

VARIABLES
    fs,          \* the filesystem: path -> [type, content]
    config,      \* the preprocessor's Config
    book,        \* outcome of the last run: status, numbered chapters, panic
    order,       \* the order in which read_dir listed names in the last run
    prev_book,   \* outcome of the run before the last
    prev_order,  \* listing order of the run before the last
    prev_fs      \* the filesystem when the last run started

vars == <<fs, config, book, order, prev_book, prev_order, prev_fs>>

----------------------------------------------------------------------------
(* Bounds of the model *)

\* entries (files and directories) in the initial filesystem
MaxEntries == 2
\* deepest path of the initial filesystem
MaxDepth == 2

----------------------------------------------------------------------------
(* Strings *)

str_README == <<"R", "E", "A", "D", "M", "E">>
str_SUMMARY == <<"S", "U", "M", "M", "A", "R", "Y">>
str_md == <<"m", "d">>
str_dot_md == <<".">> \o str_md
str_heading_marker == <<"#", " ">>

\* the byte of each character used (ASCII)
Byte(c) ==
    CASE c = "\n" -> 10
      [] c = " " -> 32
      [] c = "#" -> 35
      [] c = "." -> 46
      [] c = "A" -> 65
      [] c = "D" -> 68
      [] c = "E" -> 69
      [] c = "M" -> 77
      [] c = "R" -> 82
      [] c = "S" -> 83
      [] c = "T" -> 84
      [] c = "U" -> 85
      [] c = "Y" -> 89
      [] c = "a" -> 97
      [] c = "b" -> 98
      [] c = "c" -> 99
      [] c = "d" -> 100
      [] c = "m" -> 109

\* Ord for OsString: lexicographic on the bytes; s <= t
OsStrLeq(s, t) ==
    \/ \E i \in 1..Len(s) :
          /\ i <= Len(t)
          /\ \A j \in 1..(i - 1) : s[j] = t[j]
          /\ Byte(s[i]) < Byte(t[i])
    \/ /\ Len(s) <= Len(t)
       /\ \A j \in 1..Len(s) : s[j] = t[j]

\* str::strip_prefix: [some, rest]
strip_prefix(s, prefix) ==
    IF /\ Len(s) >= Len(prefix)
       /\ SubSeq(s, 1, Len(prefix)) = prefix
    THEN [some |-> TRUE, rest |-> SubSeq(s, Len(prefix) + 1, Len(s))]
    ELSE [some |-> FALSE, rest |-> <<>>]

\* BufRead::read_line: everything up to and including the first newline
read_line(content) ==
    LET ends == {i \in 1..Len(content) : content[i] = "\n"}
    IN  IF ends = {} THEN content
        ELSE SubSeq(content, 1, CHOOSE i \in ends : \A j \in ends : i <= j)

----------------------------------------------------------------------------
(* File names and paths *)

\* the file names that occur in the model
Names == {"README.md", "SUMMARY.md", "a.md", "a"}

\* the characters of a file name
Chars(name) ==
    CASE name = "README.md" -> str_README \o str_dot_md
      [] name = "SUMMARY.md" -> str_SUMMARY \o str_dot_md
      [] name = "a.md" -> <<"a">> \o str_dot_md
      [] name = "a" -> <<"a">>

\* the file name with the given characters
OsString(chars) == CHOOSE name \in Names : Chars(name) = chars

\* position of the last "." of a file name that starts an extension: 0 when
\* there is none or when it is the first character
LastDot(chars) ==
    LET dots == {i \in 2..Len(chars) : chars[i] = "."}
    IN  IF dots = {} THEN 0 ELSE CHOOSE i \in dots : \A j \in dots : j <= i

\* the stem of each file name: the name up to its last dot
Stems ==
    [ name \in Names |->
        LET chars == Chars(name)
        IN  IF LastDot(chars) = 0 THEN chars
            ELSE SubSeq(chars, 1, LastDot(chars) - 1) ]

\* the extension of each file name: [some, ext]
Extensions ==
    [ name \in Names |->
        LET chars == Chars(name)
        IN  IF LastDot(chars) = 0 THEN [some |-> FALSE, ext |-> <<>>]
            ELSE [ some |-> TRUE,
                   ext |-> SubSeq(chars, LastDot(chars) + 1, Len(chars)) ] ]

\* Path::file_name
file_name(path) == path[Len(path)]

\* Path::file_stem
file_stem(path) == Stems[file_name(path)]

\* Path::extension
extension(path) == Extensions[file_name(path)]

----------------------------------------------------------------------------
(* The filesystem *)

\* contents of the markdown files of the initial filesystem
FileContents ==
    { <<"#", " ", "T", "\n">>,        \* a heading, then the line terminator
      <<"T", "\n">> }                 \* no heading

Directory == [type |-> "dir", content |-> <<>>]
RegularFile(content) == [type |-> "file", content |-> content]

\* what an entry called name can be; the content of a file that is not
\* markdown is never read, so one content stands for all
EntriesNamed(name) ==
    {Directory} \cup
    { RegularFile(c) :
        c \in IF Extensions[name] = [some |-> TRUE, ext |-> str_md]
              THEN FileContents ELSE {<<>>} }

\* the book source directory alone
EmptyDisk == [p \in {<<>>} |-> Directory]

WithEntry(disk, path, entry) ==
    [p \in DOMAIN disk \cup {path} |-> IF p = path THEN entry ELSE disk[p]]

\* every filesystem with exactly k entries below the book source directory,
\* none deeper than MaxDepth
Disks[k \in Nat] ==
    IF k = 0 THEN {EmptyDisk}
    ELSE UNION {
           UNION {
             { WithEntry(disk, Append(x[1], x[2]), e) : e \in EntriesNamed(x[2]) } :
               x \in { y \in { d \in DOMAIN disk : /\ disk[d].type = "dir"
                                                  /\ Len(d) < MaxDepth } \X Names :
                         Append(y[1], y[2]) \notin DOMAIN disk } } :
           disk \in Disks[k - 1] }

\* Path::exists
exists(disk, path) == path \in DOMAIN disk

is_file(disk, path) == disk[path].type = "file"
is_dir(disk, path) == disk[path].type = "dir"

\* the orders in which read_dir may list the names of a directory
ListingOrders ==
    { <<"README.md", "SUMMARY.md", "a.md", "a">>,
      <<"a", "a.md", "SUMMARY.md", "README.md">> }

\* std::fs::read_dir: the entries of a directory, in the listing's order
read_dir(disk, dir_path, listing) ==
    SelectSeq([i \in 1..Len(listing) |-> Append(dir_path, listing[i])],
              LAMBDA p : exists(disk, p))

----------------------------------------------------------------------------
(* Config *)

Configs ==
    [ get_chapter_name_from_file : BOOLEAN,
      chapter_file_name : {str_README, str_SUMMARY},
      create_missing_chapter_files : BOOLEAN,
      ignore_missing_chapter_files : BOOLEAN ]

----------------------------------------------------------------------------
(* Option<PathBuf>, Option<&SectionNumber>, and a panic of the process *)

None == [some |-> FALSE, path |-> <<>>]
Some(path) == [some |-> TRUE, path |-> path]

NoSection == [some |-> FALSE, number |-> <<>>]
SomeSection(number) == [some |-> TRUE, number |-> number]

NoPanic == [kind |-> "none", path |-> <<>>]
\* panic!("Missing chapter file: {:?}", chapter_content)
MissingChapterFile(path) == [kind |-> "Missing chapter file", path |-> path]
\* unwrap() of the Err of reading a path that is no regular file
ReadError(path) == [kind |-> "read error", path |-> path]

----------------------------------------------------------------------------
(* get_path_to_directory_content *)

\* the content of the file written for a missing chapter file
stub_content(config_) == str_heading_marker \o config_.chapter_file_name \o str_dot_md

\* File::create followed by write!
create_and_write(disk, path, content) == WithEntry(disk, path, RegularFile(content))

\* get_path_to_directory_content with ignore_missing_chapter_files looked at
\* before create_missing_chapter_files
get_path_ignore_first(path, config_, disk) ==
    LET chapter_content ==
            Append(path, OsString(config_.chapter_file_name \o str_dot_md))
    IN  IF ~exists(disk, chapter_content)
        THEN IF config_.ignore_missing_chapter_files
             THEN [location |-> None, fs |-> disk, panic |-> NoPanic]
             ELSE IF config_.create_missing_chapter_files
             THEN [ location |-> Some(chapter_content),
                    fs |-> create_and_write(disk, chapter_content, stub_content(config_)),
                    panic |-> NoPanic ]
             ELSE [ location |-> None, fs |-> disk,
                    panic |-> MissingChapterFile(chapter_content) ]
        ELSE [location |-> Some(chapter_content), fs |-> disk, panic |-> NoPanic]

\* get_path_to_directory_content returning from the branch that creates the
\* file without the path
get_path_created_not_returned(path, config_, disk) ==
    LET chapter_content ==
            Append(path, OsString(config_.chapter_file_name \o str_dot_md))
    IN  IF ~exists(disk, chapter_content)
        THEN IF config_.create_missing_chapter_files
             THEN [ location |-> None,
                    fs |-> create_and_write(disk, chapter_content, stub_content(config_)),
                    panic |-> NoPanic ]
             ELSE IF config_.ignore_missing_chapter_files
             THEN [location |-> None, fs |-> disk, panic |-> NoPanic]
             ELSE [ location |-> None, fs |-> disk,
                    panic |-> MissingChapterFile(chapter_content) ]
        ELSE [location |-> Some(chapter_content), fs |-> disk, panic |-> NoPanic]

\* get_path_to_directory_content creating the file without looking whether
\* it exists
get_path_create_unchecked(path, config_, disk) ==
    LET chapter_content ==
            Append(path, OsString(config_.chapter_file_name \o str_dot_md))
    IN  IF config_.create_missing_chapter_files
        THEN [ location |-> Some(chapter_content),
               fs |-> create_and_write(disk, chapter_content, stub_content(config_)),
               panic |-> NoPanic ]
        ELSE IF exists(disk, chapter_content)
        THEN [location |-> Some(chapter_content), fs |-> disk, panic |-> NoPanic]
        ELSE IF config_.ignore_missing_chapter_files
        THEN [location |-> None, fs |-> disk, panic |-> NoPanic]
        ELSE [ location |-> None, fs |-> disk,
               panic |-> MissingChapterFile(chapter_content) ]

\* get_path_to_directory_content returning the path of the missing file
\* when it is ignored
get_path_ignored_returned(path, config_, disk) ==
    LET chapter_content ==
            Append(path, OsString(config_.chapter_file_name \o str_dot_md))
    IN  IF ~exists(disk, chapter_content)
        THEN IF config_.create_missing_chapter_files
             THEN [ location |-> Some(chapter_content),
                    fs |-> create_and_write(disk, chapter_content, stub_content(config_)),
                    panic |-> NoPanic ]
             ELSE IF config_.ignore_missing_chapter_files
             THEN [location |-> Some(chapter_content), fs |-> disk, panic |-> NoPanic]
             ELSE [ location |-> None, fs |-> disk,
                    panic |-> MissingChapterFile(chapter_content) ]
        ELSE [location |-> Some(chapter_content), fs |-> disk, panic |-> NoPanic]

\* the file used as the content of directory path: [location, fs, panic]
get_path_to_directory_content(path, config_, disk) ==
    LET chapter_content ==
            Append(path, OsString(config_.chapter_file_name \o str_dot_md))
    IN  IF ~exists(disk, chapter_content)
        THEN IF config_.create_missing_chapter_files
             THEN [ location |-> Some(chapter_content),
                    fs |-> create_and_write(disk, chapter_content, stub_content(config_)),
                    panic |-> NoPanic ]
             ELSE IF config_.ignore_missing_chapter_files
             THEN [location |-> None, fs |-> disk, panic |-> NoPanic]
             ELSE [ location |-> None, fs |-> disk,
                    panic |-> MissingChapterFile(chapter_content) ]
        ELSE [location |-> Some(chapter_content), fs |-> disk, panic |-> NoPanic]

----------------------------------------------------------------------------
(* get_markdown_files_and_directories *)

\* the filter's closure: markdown files and directories
is_markdown_file_or_directory(disk, entry) ==
    IF is_file(disk, entry)
    THEN extension(entry).some /\ extension(entry).ext = str_md
    ELSE is_dir(disk, entry)

get_markdown_files_and_directories(dir_path, disk, listing) ==
    SelectSeq(read_dir(disk, dir_path, listing),
              LAMBDA entry : is_markdown_file_or_directory(disk, entry))

----------------------------------------------------------------------------
(* get_chapter_name *)

\* the chapter's name: [name, panic]
get_chapter_name(location, config_, filename, disk) ==
    IF location.some /\ config_.get_chapter_name_from_file
    THEN IF ~is_file(disk, location.path)
         THEN [name |-> <<>>, panic |-> ReadError(location.path)]
         ELSE LET first_line == read_line(disk[location.path].content)
                  header == strip_prefix(first_line, str_heading_marker)
              IN  [ name |-> IF header.some THEN header.rest ELSE filename,
                    panic |-> NoPanic ]
    ELSE [name |-> filename, panic |-> NoPanic]

----------------------------------------------------------------------------
(* generate_chapters *)

\* entries sorted by the stem of the file name
sort_key_stem(entry) == file_stem(entry)

\* the key entries are sorted by: the file name
sort_key(entry) == Chars(file_name(entry))

\* Vec::sort_by_key, a stable sort: an entry goes behind the entries whose
\* key is not greater
insert_sorted(sorted, entry) ==
    LET n == Cardinality({ i \in 1..Len(sorted) :
                             OsStrLeq(sort_key(sorted[i]), sort_key(entry)) })
    IN  SubSeq(sorted, 1, n) \o <<entry>> \o SubSeq(sorted, n + 1, Len(sorted))

RECURSIVE sort_by_key(_)
sort_by_key(entries) ==
    IF entries = <<>> THEN <<>>
    ELSE insert_sorted(sort_by_key(SubSeq(entries, 1, Len(entries) - 1)),
                       entries[Len(entries)])

\* the filter without the test for the chapter file
keep_entry_chapter_file(entry, filename, section, config_, disk) ==
    ~(~section.some /\ filename = str_SUMMARY)

\* the filter dropping SUMMARY in every directory
keep_entry_summary_anywhere(entry, filename, section, config_, disk) ==
    IF filename = str_SUMMARY
    THEN FALSE
    ELSE is_dir(disk, entry) \/ filename # config_.chapter_file_name

\* the filter's closure: which sorted entries become chapters
keep_entry(entry, filename, section, config_, disk) ==
    IF ~section.some /\ filename = str_SUMMARY
    THEN FALSE
    ELSE is_dir(disk, entry) \/ filename # config_.chapter_file_name

\* the number without the step from enumerate's index to the position
section_number_from_zero(section, i) ==
    Append(IF section.some THEN section.number ELSE <<>>, i)

\* the number of the i-th kept entry, i counted from 0 by enumerate
section_number(section, i) ==
    Append(IF section.some THEN section.number ELSE <<>>, i + 1)

\* a Link; entry is the directory entry the Link was made from, which the
\* Link of mdbook does not hold: it is kept to state properties
Link(name, location, nested_items, number, entry) ==
    [ name |-> name, location |-> location, nested_items |-> nested_items,
      number |-> number, entry |-> entry ]

RECURSIVE generate_chapters(_, _, _, _, _)
RECURSIVE collect_links(_, _, _, _, _, _, _)

\* the closure that makes the Link of the i-th kept entry: [link, fs, panic]
make_link(entry, i, section, config_, disk, listing) ==
    LET number == section_number(section, i)
        filename == file_stem(entry)
        content == IF is_file(disk, entry)
                   THEN [location |-> Some(entry), fs |-> disk, panic |-> NoPanic]
                   ELSE get_path_to_directory_content(entry, config_, disk)
        nested == IF is_file(disk, entry) \/ content.panic # NoPanic
                  THEN [items |-> <<>>, fs |-> content.fs, panic |-> content.panic]
                  ELSE generate_chapters(entry, SomeSection(number), config_,
                                         content.fs, listing)
        named == IF nested.panic # NoPanic
                 THEN [name |-> <<>>, panic |-> nested.panic]
                 ELSE get_chapter_name(content.location, config_, filename, nested.fs)
    IN  [ link |-> Link(named.name, content.location, nested.items, number, entry),
          fs |-> nested.fs,
          panic |-> named.panic ]

\* map and collect over the kept entries from the i-th on, in order; a
\* panic ends the process and leaves no items
collect_links(kept, i, section, config_, disk, listing, links) ==
    IF i >= Len(kept)
    THEN [items |-> links, fs |-> disk, panic |-> NoPanic]
    ELSE LET made == make_link(kept[i + 1], i, section, config_, disk, listing)
         IN  IF made.panic # NoPanic
             THEN [items |-> <<>>, fs |-> made.fs, panic |-> made.panic]
             ELSE collect_links(kept, i + 1, section, config_, made.fs, listing,
                                Append(links, made.link))

\* the summary items of directory dir_path: [items, fs, panic]
generate_chapters(dir_path, section, config_, disk, listing) ==
    LET entries == sort_by_key(get_markdown_files_and_directories(dir_path, disk, listing))
        kept == SelectSeq(entries,
                          LAMBDA entry : keep_entry(entry, file_stem(entry), section,
                                                    config_, disk))
    IN  collect_links(kept, 0, section, config_, disk, listing, <<>>)

----------------------------------------------------------------------------
(* The preprocessor *)

NotRun == [status |-> "not run", numbered_chapters |-> <<>>, panic |-> NoPanic]

Init ==
    /\ fs \in UNION {Disks[k] : k \in 0..MaxEntries}
    /\ config \in Configs
    /\ book = NotRun
    /\ order = <<>>
    /\ prev_book = NotRun
    /\ prev_order = <<>>
    /\ prev_fs = fs

\* Preprocessor::run on the book source directory
run ==
    /\ \E listing \in ListingOrders :
          LET summary == generate_chapters(<<>>, NoSection, config, fs, listing)
          IN  /\ fs' = summary.fs
              /\ book' = [ status |-> IF summary.panic = NoPanic THEN "ok" ELSE "panic",
                           numbered_chapters |-> summary.items,
                           panic |-> summary.panic ]
              /\ order' = listing
    /\ prev_book' = book
    /\ prev_order' = order
    /\ prev_fs' = fs
    /\ UNCHANGED config

Next == run

Spec == Init /\ [][Next]_vars

----------------------------------------------------------------------------
(* The vocabulary of the properties *)

\* every Link of a tree
RECURSIVE AllLinks(_)
AllLinks(items) ==
    UNION { {items[i]} \cup AllLinks(items[i].nested_items) : i \in 1..Len(items) }

Links == AllLinks(book.numbered_chapters)

Ran == book.status # "not run"
Succeeded == book.status = "ok"
RanTwice == prev_book.status # "not run"

\* the entries of directory dir in a filesystem
Children(disk, dir) ==
    {p \in DOMAIN disk : Len(p) = Len(dir) + 1 /\ SubSeq(p, 1, Len(dir)) = dir}

\* the directory that holds an entry
Parent(path) == SubSeq(path, 1, Len(path) - 1)

\* the path of the chapter file of directory dir
ChapterFileOf(dir) == Append(dir, OsString(config.chapter_file_name \o str_dot_md))

\* the entries of directory dir that remain after filtering: markdown files
\* and directories, without SUMMARY in the book source directory and
\* without the file named as the chapter file
Retained(disk, dir) ==
    { p \in Children(disk, dir) :
        /\ \/ disk[p].type = "dir"
           \/ /\ disk[p].type = "file"
              /\ Extensions[file_name(p)] = [some |-> TRUE, ext |-> str_md]
        /\ ~(dir = <<>> /\ Stems[file_name(p)] = str_SUMMARY)
        /\ \/ disk[p].type = "dir"
           \/ Stems[file_name(p)] # config.chapter_file_name }

\* the directories a run goes into unless it panics before: all but those
\* below an entry of the book source directory with the stem SUMMARY
Subdirectories(disk) ==
    { p \in DOMAIN disk :
        /\ p # <<>>
        /\ disk[p].type = "dir"
        /\ Stems[p[1]] # str_SUMMARY }

\* every directory processed with the items made for it and their prefix
SiblingGroups ==
    { [dir |-> <<>>, prefix |-> <<>>, items |-> book.numbered_chapters] }
    \cup
    { [dir |-> l.entry, prefix |-> l.number, items |-> l.nested_items] :
        l \in {k \in Links : fs[k.entry].type = "dir"} }

\* s < t byte-wise
OsStrLess(s, t) == OsStrLeq(s, t) /\ s # t

\* a line without its terminator
WithoutTerminator(line) ==
    IF Len(line) > 0 /\ line[Len(line)] = "\n"
    THEN SubSeq(line, 1, Len(line) - 1)
    ELSE line

----------------------------------------------------------------------------
(* C1 *)

\* C1: in every directory processed, the N entries that remain after
\* filtering become N nodes numbered prefix+[1] .. prefix+[N], in ascending
\* byte-wise order of their file names, with no gap and no repeat; excluded
\* entries consume no number.
C1_SiblingNumbers ==
    Succeeded =>
      \A g \in SiblingGroups :
        /\ Len(g.items) = Cardinality(Retained(fs, g.dir))
        /\ {g.items[i].entry : i \in 1..Len(g.items)} = Retained(fs, g.dir)
        /\ \A i \in 1..Len(g.items) : g.items[i].number = Append(g.prefix, i)
        /\ \A i, j \in 1..Len(g.items) :
             i < j => OsStrLess(Chars(file_name(g.items[i].entry)),
                                Chars(file_name(g.items[j].entry)))

\* a subdirectory whose chapter file sorts before an entry that is kept and
\* numbered prefix+[1]
C1_Witness ==
    /\ Succeeded
    /\ \E g \in SiblingGroups :
         /\ g.dir # <<>>
         /\ Len(g.items) >= 1
         /\ exists(fs, ChapterFileOf(g.dir))
         /\ OsStrLess(Chars(file_name(ChapterFileOf(g.dir))),
                      Chars(file_name(g.items[1].entry)))
         /\ g.items[1].number = Append(g.prefix, 1)

----------------------------------------------------------------------------
(* C2 *)

\* the Links of directories whose chapter file did not exist when the run
\* started
LinksOfMissingChapterFile ==
    { l \in Links : /\ fs[l.entry].type = "dir"
                    /\ ~exists(prev_fs, ChapterFileOf(l.entry)) }

\* C2: when the chapter file of a subdirectory does not exist there is
\* exactly one of three outcomes: with create_missing_chapter_files (whatever
\* ignore_missing_chapter_files is) the file is created and its path
\* returned; else with ignore_missing_chapter_files no content is returned
\* and nothing is written; else the run fails with the panic that names the
\* expected path, and returns no tree.
C2_MissingChapterFile ==
    /\ Succeeded =>
         \A l \in LinksOfMissingChapterFile :
           IF config.create_missing_chapter_files
           THEN /\ l.location = Some(ChapterFileOf(l.entry))
                /\ exists(fs, ChapterFileOf(l.entry))
                /\ fs[ChapterFileOf(l.entry)] = RegularFile(stub_content(config))
           ELSE /\ config.ignore_missing_chapter_files
                /\ l.location = None
                /\ ~exists(fs, ChapterFileOf(l.entry))
                /\ fs = prev_fs
    /\ book.panic.kind = "Missing chapter file" =>
         /\ ~config.create_missing_chapter_files
         /\ ~config.ignore_missing_chapter_files
         /\ \E dir \in Subdirectories(prev_fs) :
              /\ book.panic.path = ChapterFileOf(dir)
              /\ ~exists(prev_fs, ChapterFileOf(dir))
         /\ book.status = "panic"
         /\ book.numbered_chapters = <<>>
         /\ fs = prev_fs
    /\ ( /\ Ran
         /\ ~config.create_missing_chapter_files
         /\ ~config.ignore_missing_chapter_files
         /\ \E dir \in Subdirectories(prev_fs) : ~exists(prev_fs, ChapterFileOf(dir)) )
       => /\ book.status = "panic"
          /\ book.numbered_chapters = <<>>
          /\ \/ book.panic.kind = "Missing chapter file"
             \/ /\ book.panic.kind = "read error"
                /\ config.get_chapter_name_from_file

\* both options are set, the chapter file of a subdirectory was missing, and
\* the run has created it and used it as the content
C2_Witness ==
    /\ Succeeded
    /\ config.create_missing_chapter_files
    /\ config.ignore_missing_chapter_files
    /\ \E l \in LinksOfMissingChapterFile :
         /\ l.location = Some(ChapterFileOf(l.entry))
         /\ exists(fs, ChapterFileOf(l.entry))

----------------------------------------------------------------------------
(* C3 *)

\* the first line of the content of a Link, without its terminator
HeadingLine(l) == WithoutTerminator(read_line(fs[l.location.path].content))

\* C3: with get_chapter_name_from_file, the name of a node with content
\* whose first line is "# " followed by text is that text, with the line
\* terminator removed; in every other case the name is the stem.
C3_NameFromHeading ==
    Succeeded =>
      \A l \in Links :
        IF /\ config.get_chapter_name_from_file
           /\ l.location.some
           /\ Len(HeadingLine(l)) > Len(str_heading_marker)
           /\ SubSeq(HeadingLine(l), 1, Len(str_heading_marker)) = str_heading_marker
        THEN l.name = SubSeq(HeadingLine(l), Len(str_heading_marker) + 1,
                             Len(HeadingLine(l)))
        ELSE l.name = Stems[file_name(l.entry)]

----------------------------------------------------------------------------
(* C4 *)

\* C4: in every directory processed, a regular file whose stem is
\* chapter_file_name is no chapter of its own: no node made from a file has
\* the chapter file of its directory as its content, that file is the
\* content of the node of the directory that holds it and of no other, and
\* a subdirectory with that stem is kept.
C4_ChapterFileIsNoSibling ==
    Succeeded =>
      /\ \A l \in Links :
           fs[l.entry].type = "file" =>
             /\ Stems[file_name(l.entry)] # config.chapter_file_name
             /\ l.location # Some(ChapterFileOf(Parent(l.entry)))
      /\ \A l \in Links :
           \A dir \in DOMAIN fs :
             ( /\ fs[dir].type = "dir"
               /\ exists(fs, ChapterFileOf(dir))
               /\ fs[ChapterFileOf(dir)].type = "file"
               /\ l.location = Some(ChapterFileOf(dir)) )
             => l.entry = dir
      /\ \A dir \in Subdirectories(fs) :
           Stems[file_name(dir)] = config.chapter_file_name =>
             \E l \in Links : l.entry = dir

\* a directory holds its chapter file beside a file that became a chapter
C4_Witness ==
    /\ Succeeded
    /\ \E l \in Links :
         /\ fs[l.entry].type = "file"
         /\ exists(prev_fs, ChapterFileOf(Parent(l.entry)))
         /\ prev_fs[ChapterFileOf(Parent(l.entry))].type = "file"

----------------------------------------------------------------------------
(* C5 *)

\* C5: a run that follows a run on a filesystem nothing else changes
\* returns the same tree (or fails the same way) and changes no file; with
\* create_missing_chapter_files only the first run creates files.
C5_SecondRunIsTheSame ==
    RanTwice => /\ book = prev_book
                /\ fs = prev_fs

\* create_missing_chapter_files is set, a file the first run has created is
\* there, and a second run has succeeded
C5_Witness ==
    /\ RanTwice
    /\ Succeeded
    /\ config.create_missing_chapter_files
    /\ \E l \in Links :
         /\ l.location.some
         /\ fs[l.location.path] = RegularFile(stub_content(config))
         /\ l.nested_items # <<>>

----------------------------------------------------------------------------
(* C6 *)

\* C6: a run leaves every file and directory as it was, and creates nothing
\* but the chapter file of a subdirectory it goes into, where that file was
\* missing and create_missing_chapter_files is set; none is created in the
\* book source directory itself.
C6_OnlyMissingChapterFilesAreCreated ==
    /\ \A p \in DOMAIN prev_fs : exists(fs, p) /\ fs[p] = prev_fs[p]
    /\ \A p \in DOMAIN fs \ DOMAIN prev_fs :
         /\ config.create_missing_chapter_files
         /\ Parent(p) \in Subdirectories(prev_fs)
         /\ p = ChapterFileOf(Parent(p))
         /\ fs[p] = RegularFile(stub_content(config))
    /\ ~config.create_missing_chapter_files => fs = prev_fs

\* a run has created the chapter file of a subdirectory, has left the
\* chapter file of another directory as it was, and the book source
\* directory has none
C6_Witness ==
    /\ Succeeded
    /\ DOMAIN fs # DOMAIN prev_fs
    /\ ~exists(fs, ChapterFileOf(<<>>))
    /\ \E dir \in Subdirectories(prev_fs) :
         /\ exists(prev_fs, ChapterFileOf(dir))
         /\ fs[ChapterFileOf(dir)] = prev_fs[ChapterFileOf(dir)]

----------------------------------------------------------------------------
(* C7 *)

----------------------------------------------------------------------------
(* C8 *)

\* the subdirectories without a chapter file
SubdirectoriesWithoutChapterFile ==
    {dir \in Subdirectories(fs) : ~exists(fs, ChapterFileOf(dir))}

----------------------------------------------------------------------------
(* C9 *)

\* the entries with the stem SUMMARY in the directories below the book
\* source directory that a run goes into
NestedSummaryEntries ==
    { p \in DOMAIN fs :
        /\ Len(p) >= 2
        /\ Parent(p) \in Subdirectories(fs)
        /\ Stems[file_name(p)] = str_SUMMARY
        /\ \/ fs[p].type = "dir"
           \/ Extensions[file_name(p)] = [some |-> TRUE, ext |-> str_md] }

\* no node of the book source directory has the stem SUMMARY, and the
\* nodes there are numbered 1, 2, ... without a gap
NoSummaryInBookSourceDirectory ==
    \A i \in 1..Len(book.numbered_chapters) :
      /\ Stems[file_name(book.numbered_chapters[i].entry)] # str_SUMMARY
      /\ book.numbered_chapters[i].number = <<i>>

\* the entry is a chapter with a number of its depth
IsNumberedChapter(p) ==
    \E l \in Links : l.entry = p /\ Len(l.number) = Len(p)

\* C9 as stated: an entry with the stem SUMMARY is left out of the book
\* source directory only; in any nested directory it is an ordinary
\* numbered chapter.
C9_SummaryOnlyInBookSourceDirectory ==
    Succeeded =>
      /\ NoSummaryInBookSourceDirectory
      /\ \A p \in NestedSummaryEntries : IsNumberedChapter(p)

\* C9 as amended: an entry with the stem SUMMARY is left out of the book
\* source directory; in a nested directory it is an ordinary numbered
\* chapter unless it is a regular file and chapter_file_name is SUMMARY
\* itself, which makes it the chapter file of its directory.
C9_SummaryUnlessChapterFile ==
    Succeeded =>
      /\ NoSummaryInBookSourceDirectory
      /\ \A p \in NestedSummaryEntries :
           IF fs[p].type = "file" /\ config.chapter_file_name = str_SUMMARY
           THEN ~IsNumberedChapter(p)
           ELSE IsNumberedChapter(p)

\* a file SUMMARY.md in a nested directory that became a chapter
C9_Witness ==
    /\ Succeeded
    /\ \E p \in NestedSummaryEntries :
         /\ fs[p].type = "file"
         /\ IsNumberedChapter(p)

----------------------------------------------------------------------------
(* C10 *)

\* C10: two runs on the same directory tree with the same configuration,
\* in which read_dir lists the entries in different orders, return the
\* same tree: the same nodes in the same order with the same numbers, names
\* and content paths.
C10_ListingOrderDoesNotMatter ==
    (RanTwice /\ order # prev_order) => book = prev_book

\* two successful runs with different listings of a directory with at least
\* two chapters
C10_Witness ==
    /\ RanTwice
    /\ order # prev_order
    /\ Succeeded
    /\ Len(book.numbered_chapters) >= 2

====
